---- MODULE Spec2Model ----
(***************************************************************************)
(* Model of the piboy radio app (src/app/RadioApp.py): the Control /       *)
(* ControlGroup focus and selection state machine, the AudioPlayer         *)
(* playback engine, and the playlist actions of RadioApp.                  *)
(*                                                                         *)
(* Three specifications share the definitions:                             *)
(*   SpecCtl  the Control classes on their own, callbacks arbitrary;       *)
(*   SpecApi  the RadioApp actions and the engine, called in any order;    *)
(*   Spec     the radio app as the host drives it (enter/leave, keys).     *)
(***************************************************************************)
EXTENDS Integers, Sequences, FiniteSets, TLC

VARIABLES
    kind,                   \* control index -> "instant" | "switch"
    group,                  \* control index -> member of the control group?
    selection_state,        \* Control._selection_state: "NONE" | "FOCUSED"
    is_switched,            \* SwitchControl._is_switched (switch controls only)
    selected_control_index, \* RadioApp.__selected_control_index
    entered,                \* the radio app is the host's active app
    files,                  \* len(RadioApp.__files)
    selected_index,         \* RadioApp.__selected_index
    playlist,               \* RadioApp.__playlist, position -> track index
    playing_index,          \* RadioApp.__playing_index
    is_random,              \* RadioApp.__is_random
    stream,                 \* AudioPlayer.__stream: "none" or the stream's state
    wave_read,              \* AudioPlayer.__wave_read: <<>> or <<track>>
    total_frames,           \* AudioPlayer.__total_frames
    played_frames,          \* AudioPlayer.__played_frames
    is_continuing,          \* AudioPlayer.__is_continuing
    pending,                \* __delayed_call_next threads not yet run
    worker,                 \* where a thread stands inside __call_next (SpecRace)
    mixer,                  \* the amixer control: [st, v]
    volume,                 \* RadioApp.__volume: <<>> or <<v>>
    apps,                   \* len(AppState.__apps)
    active_app,             \* AppState.__active_app
    calls,                  \* the app callbacks of the host's last call, in order
    ev                      \* the last operation, its callback and its result

ctlVars == <<kind, group, selection_state, is_switched, selected_control_index, entered>>
listVars == <<files, selected_index, playlist, playing_index, is_random>>
playerVars == <<stream, wave_read, total_frames, played_frames, is_continuing, pending,
                worker>>
volVars == <<mixer, volume>>
hostVars == <<apps, active_app, calls>>
vars == <<ctlVars, listVars, playerVars, volVars, hostVars, ev>>

\* ---------------------------------------------------------------- bounds
MaxControls == 3    \* controls of the SpecCtl harness
MaxN == 2           \* tracks in the media directory (SpecApi)
MaxUiN == 1         \* tracks in the media directory (Spec)
MaxFrames == 1      \* frames of a file
MaxChunk == 1       \* frames the driver asks for in one callback
MaxPending == 1     \* completion threads alive at once
MaxEngFrames == 2   \* frames of a file (SpecEngine)
MaxApps == 4        \* apps added to the host (SpecHost)
MaxAutoN == 3       \* tracks in the media directory (SpecAuto)
\* ------------------------------------------------------------- constants
VOLUME_STEP == 10
\* the position of the radio app among the apps main adds to the host
RadioAppIndex == 3
\* ---------------------------------------------------------------- values
None == <<>>
Some(x) == <<x>>
\* ev: the operation, the control it went to, the callback it called, how
\* the call ended, the streams it opened and whether it opened one while
\* another was still held.  For a call that directly follows its opposite
\* (prev/skip, skip/prev, random/order, pause/start) after names that
\* earlier call, and
\* from/origin hold playing_index before this call and before the earlier
\* one.  stale counts the pending completion threads that were started
\* before the last stop_action; they are the oldest and wake up first.
\* asked is the value the call handed to __set_volume; in a run of
\* alternating increase / decrease calls origin is the mixer's value
\* before the run.
Event(op, c, cb, ret) ==
    [op |-> op, c |-> c, cb |-> cb, ret |-> ret, opened |-> 0, leaked |-> FALSE,
     from |-> None, after |-> "none", origin |-> None,
     stale |-> IF cb = "stop_action" THEN pending ELSE ev.stale, asked |-> None]
EventOf(op, c, cb, r) ==
    [op |-> op, c |-> c, cb |-> cb, ret |-> r.ret, opened |-> r.opened, leaked |-> r.leaked,
     from |-> None, after |-> "none", origin |-> None,
     stale |-> IF cb = "stop_action" THEN pending ELSE ev.stale, asked |-> r.asked]

(***************************************************************************)
(* Control, SwitchControl, InstantControl, ControlGroup.  A value ctl is   *)
(* [ss |-> selection_state, sw |-> is_switched] of all controls.           *)
(***************************************************************************)
Ctl == [ss |-> selection_state, sw |-> is_switched]
Controls == DOMAIN kind
Switches == {c \in Controls : kind[c] = "switch"}
GroupMembers == {c \in Controls : group[c]}

\* SelectionState.NONE and .FOCUSED are both built with is_selected = False
StateIsSelected(s) == FALSE
control_is_selected(ctl, c) == StateIsSelected(ctl.ss[c])
control_is_focused(ctl, c) == ctl.ss[c] = "FOCUSED"

on_focus(ctl, c) == [ctl EXCEPT !.ss[c] = "FOCUSED"]
on_blur_keeps(ctl, c) == ctl
on_blur(ctl, c) == [ctl EXCEPT !.ss[c] = "NONE"]
on_deselect(ctl, c) == [ctl EXCEPT !.sw[c] = FALSE]

reset_keeps_switch(ctl, c) == [ctl EXCEPT !.ss[c] = "NONE"]
reset(ctl, c) ==
    IF kind[c] = "switch"
    THEN on_deselect(on_blur(ctl, c), c)
    ELSE [ctl EXCEPT !.ss[c] = "NONE"]

RECURSIVE ResetAll(_, _)
ResetAll(ctl, cs) ==
    IF cs = {} THEN ctl
    ELSE LET c == CHOOSE x \in cs : TRUE
         IN ResetAll(reset(ctl, c), cs \ {c})

clear_selection_all(ctl, c) == ResetAll(ctl, GroupMembers)
clear_selection(ctl, c) == ResetAll(ctl, {m \in GroupMembers : m # c})

handle_control_group_never(ctl, c) == ctl
handle_control_group(ctl, c) ==
    IF ~control_is_selected(ctl, c) /\ group[c]
    THEN clear_selection(ctl, c)
    ELSE ctl

\* the callback SwitchControl.on_select calls, by the field that holds it
switch_callback_swapped(ctl, c) == IF ctl.sw[c] THEN "_on_switched_select" ELSE "_on_select"
switch_callback(ctl, c) == IF ctl.sw[c] THEN "_on_select" ELSE "_on_switched_select"

\* the assignment after the callback returned ret
switch_after_always(ctl, c, ret) == [ctl EXCEPT !.sw[c] = ~ctl.sw[c]]
switch_after(ctl, c, ret) ==
    IF ret = "true" THEN [ctl EXCEPT !.sw[c] = ~ctl.sw[c]] ELSE ctl

CommitCtl(ctl) ==
    /\ selection_state' = ctl.ss
    /\ is_switched' = ctl.sw

(***************************************************************************)
(* AudioPlayer.  A value s is the record of the playlist and player fields *)
(* plus ret, the result of the call that produced it: "true", "false",     *)
(* "none" (returned nothing) or "raised" (an exception left the call).     *)
(***************************************************************************)
Cur ==
    [files |-> files, selected_index |-> selected_index, playlist |-> playlist,
     playing_index |-> playing_index, is_random |-> is_random,
     stream |-> stream, wave_read |-> wave_read, total_frames |-> total_frames,
     played_frames |-> played_frames, is_continuing |-> is_continuing,
     pending |-> pending, mixer |-> mixer, volume |-> volume, ret |-> "none",
     opened |-> 0, leaked |-> FALSE, asked |-> None, worker |-> worker]

CommitApp(s) ==
    /\ selected_index' = s.selected_index
    /\ playlist' = s.playlist
    /\ playing_index' = s.playing_index
    /\ is_random' = s.is_random
    /\ stream' = s.stream
    /\ wave_read' = s.wave_read
    /\ total_frames' = s.total_frames
    /\ played_frames' = s.played_frames
    /\ is_continuing' = s.is_continuing
    /\ pending' = s.pending
    /\ worker' = s.worker
    /\ mixer' = s.mixer
    /\ volume' = s.volume
    /\ files' = files

\* a call into the radio app: the host's fields are not its to change
Commit(s) ==
    /\ CommitApp(s)
    /\ UNCHANGED hostVars

Returned(s, r) == [s EXCEPT !.ret = r]

\* outcomes of load_file: wave.open raises, PyAudio.open raises, or both succeed
LoadResults == {"ok", "wave_error", "open_error"}

has_stream(s) == s.stream # "none"
\* Stream.is_active(): started and its callback has not returned paComplete
is_active(s) == s.stream # "none" /\ s.stream = "active"

\* PyAudio.open starts the stream (start=True is its default)
load_file(s, t, res, n) ==
    IF res = "wave_error" THEN Returned(s, "raised")
    ELSE LET s1 == [s EXCEPT !.wave_read = Some(t), !.total_frames = n,
                             !.played_frames = 0]
         IN IF res = "open_error" THEN Returned(s1, "raised")
            ELSE Returned([s1 EXCEPT !.stream = "active", !.opened = @ + 1,
                                     !.leaked = @ \/ has_stream(s)], "none")

\* Stream.start_stream() restarts a stopped stream; on a running or a
\* finished one PortAudio answers paStreamIsNotStopped, which PyAudio drops
start_stream_rewinds(s) ==
    IF has_stream(s)
    THEN Returned([s EXCEPT !.stream = IF @ = "stopped" THEN "active" ELSE @,
                            !.is_continuing = TRUE, !.played_frames = 0], "true")
    ELSE Returned(s, "false")
start_stream(s) ==
    IF has_stream(s)
    THEN Returned([s EXCEPT !.stream = IF @ = "stopped" THEN "active" ELSE @,
                            !.is_continuing = TRUE], "true")
    ELSE Returned(s, "false")

pause_stream_closes(s) ==
    IF has_stream(s)
    THEN Returned([s EXCEPT !.stream = "none", !.is_continuing = FALSE], "true")
    ELSE Returned(s, "false")
pause_stream(s) ==
    IF has_stream(s)
    THEN Returned([s EXCEPT !.stream = "stopped", !.is_continuing = FALSE], "true")
    ELSE Returned(s, "false")

stop_stream(s) ==
    IF has_stream(s)
    THEN Returned([s EXCEPT !.stream = "none", !.is_continuing = FALSE,
                            !.total_frames = 0, !.played_frames = 0], "true")
    ELSE Returned(s, "false")

\* progress: None, 1, or the fraction played_frames / total_frames, kept as
\* the pair <<numerator, denominator>>
progress_unclamped(s) ==
    IF s.total_frames = 0 THEN None
    ELSE Some(<<s.played_frames, s.total_frames>>)
progress(s) ==
    IF s.total_frames = 0 THEN None
    ELSE IF s.total_frames <= s.played_frames THEN Some(<<1, 1>>)
    ELSE Some(<<s.played_frames, s.total_frames>>)

\* the pull callback of a running stream, asked for frame_count frames
stream_callback_silent(s, frame_count) ==
    LET s1 == [s EXCEPT !.played_frames = @ + frame_count]
    IN IF s1.played_frames >= s1.total_frames
       THEN Returned([s1 EXCEPT !.stream = "complete"], "complete")
       ELSE Returned(s1, "continue")
stream_callback_inline(s, frame_count) ==
    LET s1 == [s EXCEPT !.played_frames = @ + frame_count]
    IN IF s1.played_frames >= s1.total_frames
       THEN Returned([s1 EXCEPT !.stream = "complete",
                                !.playing_index = IF s.is_continuing /\ s.files > 0
                                                  THEN (@ + 1) % s.files ELSE @],
                     "complete")
       ELSE Returned(s1, "continue")
stream_callback(s, frame_count) ==
    LET s1 == [s EXCEPT !.played_frames = @ + frame_count]
    IN IF s1.played_frames >= s1.total_frames
       THEN Returned([s1 EXCEPT !.pending = @ + 1, !.stream = "complete"], "complete")
       ELSE Returned(s1, "continue")

\* readframes raises inside the pull callback: nothing was assigned yet,
\* no thread is started, and PyAudio's callback wrapper answers the
\* exception with paAbort, which ends the stream
stream_callback_raises(s) == Returned([s EXCEPT !.stream = "aborted"], "raised")

(***************************************************************************)
(* RadioApp: the playlist actions.                                         *)
(***************************************************************************)
Identity(n) == [i \in 0..(n - 1) |-> i]
Perms(n) == {p \in [0..(n - 1) -> 0..(n - 1)] :
                \A i, j \in 0..(n - 1) : p[i] = p[j] => i = j}

\* list.index(x): the first position holding x; callers test Holds first
Holds(pl, x) == \E i \in DOMAIN pl : pl[i] = x
IndexOf(pl, x) == CHOOSE i \in DOMAIN pl :
                     pl[i] = x /\ \A j \in DOMAIN pl : pl[j] = x => i <= j

play_action_no_relocate(s, res, n) ==
    IF s.files = 0 THEN Returned(s, "false")
    ELSE LET s2 == IF ~has_stream(s)
                   THEN load_file(s, s.playlist[s.playing_index], res, n)
                   ELSE Returned(s, "none")
         IN IF s2.ret = "raised" THEN s2
            ELSE Returned(start_stream(s2), "true")
play_action(s, res, n) ==
    IF s.files = 0 THEN Returned(s, "false")
    ELSE LET differs == s.selected_index # s.playlist[s.playing_index]
             found == Holds(s.playlist, s.selected_index)
             s0 == IF differs /\ found
                   THEN [s EXCEPT !.playing_index = IndexOf(s.playlist, s.selected_index)]
                   ELSE s
             s1 == IF differs /\ found /\ has_stream(s0) THEN stop_stream(s0) ELSE s0
             s2 == IF ~has_stream(s1)
                   THEN load_file(s1, s1.playlist[s1.playing_index], res, n)
                   ELSE Returned(s1, "none")
         IN IF differs /\ ~found THEN Returned(s, "raised")
            ELSE IF s2.ret = "raised" THEN s2
            ELSE Returned(start_stream(s2), "true")

pause_action(s) == pause_stream(s)

stop_action(s) == Returned(stop_stream(s), "none")

Moved_nowrap(s, d) ==
    LET p == s.playing_index + d
    IN [s EXCEPT !.playing_index = p,
                 !.selected_index = IF p \in DOMAIN s.playlist THEN s.playlist[p] ELSE @]
Moved_clamp(s, d) ==
    LET q == s.playing_index + d
        p == IF q < 0 THEN 0 ELSE IF q > s.files - 1 THEN s.files - 1 ELSE q
    IN [s EXCEPT !.playing_index = p, !.selected_index = s.playlist[p]]
Moved(s, d) ==
    LET p == (s.playing_index + d) % s.files
    IN [s EXCEPT !.playing_index = p, !.selected_index = s.playlist[p]]

Restart_never(s, res, n) == Returned(s, "none")
Restart(s, res, n) ==
    IF is_active(s)
    THEN LET r == play_action(stop_action(s), res, n)
         IN IF r.ret = "raised" THEN r ELSE Returned(r, "none")
    ELSE Returned(s, "none")

prev_action_empty_moves(s, res, n) ==
    IF s.files = 0 THEN Returned([s EXCEPT !.playing_index = @ - 1], "none")
    ELSE Restart(Moved(s, -1), res, n)
prev_action(s, res, n) ==
    IF s.files = 0 THEN Returned(s, "none")
    ELSE Restart(Moved(s, -1), res, n)

skip_action(s, res, n) ==
    IF s.files = 0 THEN Returned(s, "none")
    ELSE Restart(Moved(s, 1), res, n)

\* random.shuffle(playlist) picks the permutation p
random_action_dup(s, p) ==
    LET s1 == [s EXCEPT !.is_random = TRUE,
                        !.playlist = [i \in DOMAIN @ |-> @[p[0]]]]
    IN IF Holds(s1.playlist, s1.selected_index)
       THEN Returned([s1 EXCEPT !.playing_index = IndexOf(s1.playlist, s1.selected_index)],
                     "true")
       ELSE Returned(s1, "raised")
random_action_stale_index(s, p) ==
    LET s1 == [s EXCEPT !.is_random = TRUE,
                        !.playlist = [i \in DOMAIN @ |-> @[p[i]]]]
    IN IF Holds(s1.playlist, s1.selected_index)
       THEN Returned(s1, "true")
       ELSE Returned(s1, "raised")
random_action(s, p) ==
    LET s1 == [s EXCEPT !.is_random = TRUE,
                        !.playlist = [i \in DOMAIN @ |-> @[p[i]]]]
    IN IF Holds(s1.playlist, s1.selected_index)
       THEN Returned([s1 EXCEPT !.playing_index = IndexOf(s1.playlist, s1.selected_index)],
                     "true")
       ELSE Returned(s1, "raised")

order_action_keeps_index(s) ==
    Returned([s EXCEPT !.is_random = FALSE, !.playlist = Identity(s.files)], "true")
order_action(s) ==
    Returned([s EXCEPT !.is_random = FALSE, !.playlist = Identity(s.files),
                       !.playing_index = s.selected_index], "true")

call_next_stays(s, res, n) ==
    IF s.is_continuing /\ s.files > 0
    THEN LET s1 == stop_stream(s)
             s2 == load_file(s1, s1.playlist[s1.playing_index], res, n)
         IN IF s2.ret = "raised" THEN s2
            ELSE Returned(start_stream(s2), "none")
    ELSE Returned(s, "none")
call_next_ignores_pause(s, res, n) ==
    IF s.files > 0
    THEN LET s1 == stop_stream(Moved(s, 1))
             s2 == load_file(s1, s1.playlist[s1.playing_index], res, n)
         IN IF s2.ret = "raised" THEN s2
            ELSE Returned(start_stream(s2), "none")
    ELSE Returned(s, "none")
call_next(s, res, n) ==
    IF s.is_continuing /\ s.files > 0
    THEN LET s1 == stop_stream(Moved(s, 1))
             s2 == load_file(s1, s1.playlist[s1.playing_index], res, n)
         IN IF s2.ret = "raised" THEN s2
            ELSE Returned(start_stream(s2), "none")
    ELSE Returned(s, "none")

\* __call_next statement by statement, as the completion thread runs it
\* beside the UI thread: the test, the two index assignments, stop_stream,
\* load_file, start_stream
call_next_check(s) ==
    IF s.is_continuing /\ s.files > 0 THEN [s EXCEPT !.worker = "advance"] ELSE s
call_next_advance(s) == [Moved(s, 1) EXCEPT !.worker = "stop"]
call_next_stop(s) == [Returned(stop_stream(s), "none") EXCEPT !.worker = "load"]
call_next_load(s, res, n) ==
    LET r == load_file(s, s.playlist[s.playing_index], res, n)
    IN [r EXCEPT !.worker = IF r.ret = "raised" THEN "idle" ELSE "start"]
call_next_start(s) == [Returned(start_stream(s), "none") EXCEPT !.worker = "idle"]

on_key_up(s) == [s EXCEPT !.selected_index = IF @ - 1 > 0 THEN @ - 1 ELSE 0]
on_key_down_follows(s) ==
    LET to == IF s.selected_index + 1 < s.files - 1 THEN s.selected_index + 1
              ELSE s.files - 1
    IN [s EXCEPT !.selected_index = to, !.playing_index = to]
on_key_down(s) ==
    [s EXCEPT !.selected_index = IF @ + 1 < s.files - 1 THEN @ + 1 ELSE s.files - 1]


(***************************************************************************)
(* RadioApp: volume.  mixer = [st, v]: st "ok" (a control answers, at v    *)
(* percent), "nocontrol" (amixer runs, no candidate control answers:       *)
(* ValueError) or "nocmd" (amixer cannot be run: FileNotFoundError).       *)
(***************************************************************************)
Min(a, b) == IF a < b THEN a ELSE b
Max(a, b) == IF a > b THEN a ELSE b

\* __set_volume(v) then __volume = __get_volume(), inside try/except ValueError
SetAndRead(s, v) ==
    IF v < 0 \/ v > 100 THEN Returned([s EXCEPT !.asked = Some(v)], "none")
    ELSE Returned([s EXCEPT !.mixer.v = v, !.volume = Some(v), !.asked = Some(v)],
                  "none")

decrease_volume_action_unaligned(s) ==
    IF s.mixer.st = "nocmd" THEN Returned(s, "raised")
    ELSE IF s.mixer.st = "nocontrol" THEN Returned(s, "none")
    ELSE SetAndRead(s, Max(s.mixer.v - VOLUME_STEP, 0))
decrease_volume_action(s) ==
    IF s.mixer.st = "nocmd" THEN Returned(s, "raised")
    ELSE IF s.mixer.st = "nocontrol" THEN Returned(s, "none")
    ELSE LET current_value == s.mixer.v
         IN IF current_value % VOLUME_STEP = 0
            THEN SetAndRead(s, Max(current_value - VOLUME_STEP, 0))
            ELSE LET aligned_value == (current_value \div VOLUME_STEP) * VOLUME_STEP
                 IN SetAndRead(s, Max(aligned_value - VOLUME_STEP, 0))

increase_volume_action_unclamped(s) ==
    IF s.mixer.st = "nocmd" THEN Returned(s, "raised")
    ELSE IF s.mixer.st = "nocontrol" THEN Returned(s, "none")
    ELSE LET current_value == s.mixer.v
         IN IF current_value % VOLUME_STEP = 0
            THEN SetAndRead(s, current_value + VOLUME_STEP)
            ELSE LET aligned_value ==
                         ((current_value + VOLUME_STEP) \div VOLUME_STEP) * VOLUME_STEP
                 IN SetAndRead(s, aligned_value + VOLUME_STEP)
increase_volume_action(s) ==
    IF s.mixer.st = "nocmd" THEN Returned(s, "raised")
    ELSE IF s.mixer.st = "nocontrol" THEN Returned(s, "none")
    ELSE LET current_value == s.mixer.v
         IN IF current_value % VOLUME_STEP = 0
            THEN SetAndRead(s, Min(current_value + VOLUME_STEP, 100))
            ELSE LET aligned_value ==
                         ((current_value + VOLUME_STEP) \div VOLUME_STEP) * VOLUME_STEP
                 IN SetAndRead(s, Min(aligned_value + VOLUME_STEP, 100))

\* RadioApp.__init__: __volume = __get_volume(), None when it raises
InitVolume(m) == IF m.st = "ok" THEN Some(m.v) ELSE None

(***************************************************************************)
(* RadioApp: the controls built by __init__ and what each one calls.       *)
(***************************************************************************)
AppControls == 0..6
AppKind == [c \in AppControls |-> IF c \in {2, 4} THEN "switch" ELSE "instant"]
AppGroup == [c \in AppControls |-> c \in {0, 2}]

on_select_of(c) ==
    CASE c = 0 -> "stop_action"
      [] c = 1 -> "prev_action"
      [] c = 2 -> "pause_action"
      [] c = 3 -> "skip_action"
      [] c = 4 -> "order_action"
      [] c = 5 -> "decrease_volume_action"
      [] c = 6 -> "increase_volume_action"

on_switched_select_of(c) ==
    CASE c = 2 -> "play_action"
      [] c = 4 -> "random_action"

\* the action a control's callback field is bound to
Wired(c, field) ==
    IF field = "_on_select" THEN on_select_of(c) ELSE on_switched_select_of(c)

\* one call of the named action; res, n: what a load_file in it meets;
\* p: the permutation a shuffle in it picks
RunAction(name, s, res, n, p) ==
    CASE name = "stop_action" -> stop_action(s)
      [] name = "prev_action" -> prev_action(s, res, n)
      [] name = "pause_action" -> pause_action(s)
      [] name = "play_action" -> play_action(s, res, n)
      [] name = "skip_action" -> skip_action(s, res, n)
      [] name = "order_action" -> order_action(s)
      [] name = "random_action" -> random_action(s, p)
      [] name = "decrease_volume_action" -> decrease_volume_action(s)
      [] name = "increase_volume_action" -> increase_volume_action(s)

\* RadioApp.on_key_a: on_select of the control under the cursor.  Yields
\* [ctl, s, cb]: the controls, the app, the action called.
on_key_a(ctl, s, c, res, n, p) ==
    LET ctl1 == handle_control_group(ctl, c)
    IN IF kind[c] = "switch"
       THEN LET cb == Wired(c, switch_callback(ctl1, c))
                r == RunAction(cb, s, res, n, p)
            IN [ctl |-> switch_after(ctl1, c, r.ret), s |-> r, cb |-> cb]
       ELSE LET cb == Wired(c, "_on_select")
                r == RunAction(cb, s, res, n, p)
            IN [ctl |-> ctl1, s |-> Returned(r, IF r.ret = "raised" THEN "raised" ELSE "none"),
                cb |-> cb]

on_key_left(c) == Max(c - 1, 0)
on_key_right(c) == Min(c + 1, Cardinality(Controls) - 1)

\* RadioApp.on_app_enter: the auto-play, its exceptions swallowed
on_app_enter(s, res, n) ==
    IF s.files > 0 /\ (~has_stream(s) \/ ~is_active(s))
    THEN play_action(s, res, n)
    ELSE Returned(s, "none")

on_app_leave(s) == stop_action(s)


(***************************************************************************)
(* Initial states: RadioApp.__init__ over a media directory of n files.    *)
(***************************************************************************)
FileFrames == 0..MaxFrames
\* what a load_file meets: <<outcome, frames in the file's header>>
LoadInputs == {<<"wave_error", 0>>} \cup ((LoadResults \ {"wave_error"}) \X FileFrames)
Chunks == 1..MaxChunk
Results == {"true", "false", "raised"}

InitPlayer ==
    /\ stream = "none"
    /\ wave_read = None
    /\ total_frames = 0
    /\ played_frames = 0
    /\ is_continuing = FALSE
    /\ pending = 0
    /\ worker = "idle"

InitApp(n, m) ==
    /\ files = n
    /\ selected_index = 0
    /\ playlist = Identity(n)
    /\ playing_index = 0
    /\ is_random = FALSE
    /\ mixer = m
    /\ volume = InitVolume(m)
    /\ InitPlayer

InitControls(k, g) ==
    /\ kind = k
    /\ group = g
    /\ selection_state = [c \in DOMAIN k |-> "NONE"]
    /\ is_switched = [c \in {x \in DOMAIN k : k[x] = "switch"} |-> FALSE]

\* AppState.__init__: no app added yet
InitAppState ==
    /\ apps = 0
    /\ active_app = 0
    /\ calls = <<>>

NoEvent ==
    [op |-> "init", c |-> -1, cb |-> "none", ret |-> "none", opened |-> 0,
     leaked |-> FALSE, from |-> None, after |-> "none", origin |-> None, stale |-> 0,
     asked |-> None]

(***************************************************************************)
(* SpecCtl: controls of any kind, grouped or not, their callbacks          *)
(* returning anything.                                                     *)
(***************************************************************************)
InitCtl ==
    /\ \E k \in 1..MaxControls :
         \E kd \in [0..(k - 1) -> {"instant", "switch"}], g \in [0..(k - 1) -> BOOLEAN] :
            InitControls(kd, g)
    /\ selected_control_index = 0
    /\ entered = FALSE
    /\ InitApp(0, [st |-> "nocontrol", v |-> 0])
    /\ InitAppState
    /\ ev = NoEvent

CtlFrame ==
    UNCHANGED <<kind, group, selected_control_index, entered, listVars, playerVars, volVars,
                hostVars>>

CtlFocus ==
    \E c \in Controls :
        /\ CommitCtl(on_focus(Ctl, c))
        /\ ev' = Event("on_focus", c, "none", "none")
        /\ CtlFrame

CtlBlur ==
    \E c \in Controls :
        /\ CommitCtl(on_blur(Ctl, c))
        /\ ev' = Event("on_blur", c, "none", "none")
        /\ CtlFrame

CtlReset ==
    \E c \in Controls :
        /\ CommitCtl(reset(Ctl, c))
        /\ ev' = Event("reset", c, "none", "none")
        /\ CtlFrame

CtlClear ==
    \E c \in Controls :
        /\ CommitCtl(clear_selection(Ctl, c))
        /\ ev' = Event("clear_selection", c, "none", "none")
        /\ CtlFrame

\* SwitchControl.on_select, its callback returning r
CtlSelectSwitch ==
    \E c \in Switches, r \in Results :
        LET ctl1 == handle_control_group(Ctl, c)
        IN /\ CommitCtl(switch_after(ctl1, c, r))
           /\ ev' = Event("on_select", c, switch_callback(ctl1, c), r)
           /\ CtlFrame

\* InstantControl.on_select
CtlSelectInstant ==
    \E c \in Controls \ Switches, r \in {"none", "raised"} :
        /\ CommitCtl(handle_control_group(Ctl, c))
        /\ ev' = Event("on_select", c, "_on_select", r)
        /\ CtlFrame

NextCtl ==
    \/ CtlFocus
    \/ CtlBlur
    \/ CtlReset
    \/ CtlClear
    \/ CtlSelectSwitch
    \/ CtlSelectInstant

SpecCtl == InitCtl /\ [][NextCtl]_vars


(***************************************************************************)
(* The radio app.  Init is the state RadioApp.__init__ leaves.             *)
(***************************************************************************)
InitRadioApp(tracks, mixers) ==
    /\ InitControls(AppKind, AppGroup)
    /\ selected_control_index = 2
    /\ entered = FALSE
    /\ \E n \in tracks, m \in mixers : InitApp(n, m)
    /\ ev = NoEvent

\* the radio app on its own, its callbacks called directly
InitRadio(tracks, mixers) ==
    /\ InitRadioApp(tracks, mixers)
    /\ InitAppState

\* the inputs an action can meet: only a load reads li, only a shuffle p
LoadsOf(name) ==
    IF name \in {"play_action", "prev_action", "skip_action", "call_next", "on_app_enter"}
    THEN LoadInputs ELSE {<<"ok", 0>>}
ShufflesOf(name) == IF name = "random_action" THEN Perms(files) ELSE {Identity(files)}

CtlUnchanged == UNCHANGED <<kind, group, selection_state, is_switched, selected_control_index>>

\* the driver pulls frames from a running stream
StreamCallback ==
    \E frame_count \in Chunks :
        LET r == stream_callback(Cur, frame_count)
        IN /\ is_active(Cur)
           /\ r.pending <= MaxPending
           /\ r.played_frames <= MaxFrames + MaxChunk
           /\ Commit(r)
           /\ ev' = EventOf("stream_callback", -1, "none", r)
           /\ CtlUnchanged
           /\ UNCHANGED entered

\* a __delayed_call_next thread wakes up and runs __call_next
CallNext ==
    \E li \in LoadInputs :
        LET r == call_next([Cur EXCEPT !.pending = @ - 1], li[1], li[2])
        IN /\ pending > 0
           /\ Commit(r)
           /\ ev' = [EventOf("call_next", -1,
                             IF is_continuing /\ files > 0 THEN "advance" ELSE "none", r)
                        EXCEPT !.stale = IF @ > 0 THEN @ - 1 ELSE 0]
           /\ CtlUnchanged
           /\ UNCHANGED entered

(***************************************************************************)
(* SpecApi: the actions of RadioApp called directly, in any order.         *)
(***************************************************************************)
Opposite(a, b) ==
    \/ a = "prev_action" /\ b = "skip_action"
    \/ a = "skip_action" /\ b = "prev_action"
    \/ a = "random_action" /\ b = "order_action"
    \/ a = "pause_stream" /\ b = "start_stream"

Api(name, r) ==
    /\ Commit(r)
    /\ ev' = [EventOf(name, -1, name, r) EXCEPT
                 !.from = IF name \in {"prev_action", "skip_action"}
                          THEN Some(playing_index) ELSE None,
                 !.after = IF Opposite(ev.op, name) THEN ev.op ELSE "none",
                 !.origin = IF Opposite(ev.op, name) THEN ev.from ELSE None]
    /\ CtlUnchanged
    /\ UNCHANGED entered

ApiPlay ==
    \E li \in LoadInputs : Api("play_action", play_action(Cur, li[1], li[2]))
ApiPause == Api("pause_action", pause_action(Cur))
ApiStop == Api("stop_action", stop_action(Cur))
ApiPrev ==
    \E li \in LoadInputs : Api("prev_action", prev_action(Cur, li[1], li[2]))
ApiSkip ==
    \E li \in LoadInputs : Api("skip_action", skip_action(Cur, li[1], li[2]))
ApiRandom == \E p \in Perms(files) : Api("random_action", random_action(Cur, p))
ApiOrder == Api("order_action", order_action(Cur))

ApiKeyUp ==
    /\ Commit(on_key_up(Cur))
    /\ ev' = Event("on_key_up", -1, "none", "none")
    /\ CtlUnchanged
    /\ UNCHANGED entered

ApiKeyDown ==
    /\ Commit(on_key_down(Cur))
    /\ ev' = Event("on_key_down", -1, "none", "none")
    /\ CtlUnchanged
    /\ UNCHANGED entered

\* the completion handler itself, called as the engine's callback_next
ApiCallNext ==
    \E li \in LoadInputs :
        LET r == call_next(Cur, li[1], li[2])
        IN /\ Commit(r)
           /\ ev' = EventOf("call_next", -1,
                            IF is_continuing /\ files > 0 THEN "advance" ELSE "none", r)
           /\ CtlUnchanged
           /\ UNCHANGED entered

NextApi ==
    \/ ApiPlay
    \/ ApiPause
    \/ ApiStop
    \/ ApiPrev
    \/ ApiSkip
    \/ ApiRandom
    \/ ApiOrder
    \/ ApiKeyUp
    \/ ApiKeyDown
    \/ StreamCallback
    \/ CallNext
    \/ ApiCallNext

ApiMixers == {[st |-> "ok", v |-> 100]}
InitApi == InitRadio(0..MaxN, ApiMixers)
SpecApi == InitApi /\ [][NextApi]_vars

(***************************************************************************)
(* SpecEngine: the methods of AudioPlayer called directly, in any order,   *)
(* load_file only with no stream held, as its two callers in RadioApp do.  *)
(* The callback_next of this harness leaves the engine alone.              *)
(***************************************************************************)
EngLoadInputs ==
    {<<"wave_error", 0>>} \cup ((LoadResults \ {"wave_error"}) \X (0..MaxEngFrames))

Eng(name, r) ==
    /\ Commit(r)
    /\ ev' = [EventOf(name, -1, "none", r) EXCEPT
                 !.after = IF Opposite(ev.op, name) THEN ev.op ELSE "none"]
    /\ CtlUnchanged
    /\ UNCHANGED entered

EngLoad ==
    \E t \in 0..(files - 1), li \in EngLoadInputs :
        /\ ~has_stream(Cur)
        /\ Eng("load_file", load_file(Cur, t, li[1], li[2]))
EngStart == Eng("start_stream", start_stream(Cur))
EngPause == Eng("pause_stream", pause_stream(Cur))
EngStop == Eng("stop_stream", stop_stream(Cur))

\* a __delayed_call_next thread wakes up and calls callback_next
EngNotify ==
    /\ pending > 0
    /\ pending' = pending - 1
    /\ ev' = Event("callback_next", -1, "none", "none")
    /\ UNCHANGED <<ctlVars, listVars, volVars, hostVars, worker,
                   stream, wave_read, total_frames, played_frames, is_continuing>>

\* the driver pulls frames and the read of the file fails
StreamReadError ==
    LET r == stream_callback_raises(Cur)
    IN /\ is_active(Cur)
       /\ Commit(r)
       /\ ev' = EventOf("stream_callback", -1, "read_error", r)
       /\ CtlUnchanged
       /\ UNCHANGED entered

NextEngine ==
    \/ EngLoad
    \/ EngStart
    \/ EngPause
    \/ EngStop
    \/ StreamCallback
    \/ StreamReadError
    \/ EngNotify

InitEngine == InitRadio({MaxN}, ApiMixers)
SpecEngine == InitEngine /\ [][NextEngine]_vars

(***************************************************************************)
(* SpecVol: the two volume actions called in any order, from every value   *)
(* the mixer can report.                                                   *)
(***************************************************************************)
Vol(name, r) ==
    /\ Commit(r)
    /\ ev' = [EventOf(name, -1, name, r) EXCEPT
                 !.origin =
                    IF name = "increase_volume_action"
                    THEN IF ev.op = "decrease_volume_action" /\ ev.origin # None
                         THEN ev.origin ELSE Some(mixer.v)
                    ELSE IF ev.op = "increase_volume_action" THEN ev.origin ELSE None]
    /\ CtlUnchanged
    /\ UNCHANGED entered

VolUp == Vol("increase_volume_action", increase_volume_action(Cur))
VolDown == Vol("decrease_volume_action", decrease_volume_action(Cur))

NextVol ==
    \/ VolUp
    \/ VolDown

VolMixers == {[st |-> "ok", v |-> v] : v \in 0..100}
InitVol == InitRadio({0}, VolMixers)
SpecVol == InitVol /\ [][NextVol]_vars

(***************************************************************************)
(* SpecAuto: the user picks a track and an order and starts it, then       *)
(* leaves the app alone; every load succeeds.  The driver keeps pulling    *)
(* frames from a running stream and a started completion thread wakes up   *)
(* after its sleep: both are weakly fair.                                  *)
(***************************************************************************)
LoadsOk == {"ok"} \X FileFrames

AutoSetup == ev.op \in {"init", "on_key_down", "random_action"}

AutoKeyDown ==
    /\ AutoSetup
    /\ ApiKeyDown

AutoRandom ==
    /\ AutoSetup
    /\ ApiRandom

AutoPlay ==
    /\ AutoSetup
    /\ \E li \in LoadsOk : Api("play_action", play_action(Cur, li[1], li[2]))

AutoCallNext ==
    \E li \in LoadsOk :
        LET r == call_next([Cur EXCEPT !.pending = @ - 1], li[1], li[2])
        IN /\ pending > 0
           /\ Commit(r)
           /\ ev' = [EventOf("call_next", -1,
                             IF is_continuing /\ files > 0 THEN "advance" ELSE "none", r)
                        EXCEPT !.stale = IF @ > 0 THEN @ - 1 ELSE 0]
           /\ CtlUnchanged
           /\ UNCHANGED entered

NextAuto ==
    \/ AutoKeyDown
    \/ AutoRandom
    \/ AutoPlay
    \/ StreamCallback
    \/ AutoCallNext

InitAuto == InitRadio(1..MaxAutoN, ApiMixers)
SpecAuto ==
    /\ InitAuto
    /\ [][NextAuto]_vars
    /\ WF_vars(StreamCallback)
    /\ WF_vars(AutoCallNext)

(***************************************************************************)
(* Spec: the radio app under the host (piboy.AppState), which enters and   *)
(* leaves it and hands it the keys while it is the active app.             *)
(***************************************************************************)
AppEnter ==
    \E li \in LoadInputs :
        LET r == on_app_enter(Cur, li[1], li[2])
        IN /\ ~entered
           /\ entered' = TRUE
           /\ CommitCtl(on_focus(Ctl, selected_control_index))
           /\ Commit(r)
           /\ ev' = EventOf("on_app_enter", -1,
                            IF files > 0 /\ (~has_stream(Cur) \/ ~is_active(Cur))
                            THEN "play_action" ELSE "none", r)
           /\ UNCHANGED <<kind, group, selected_control_index>>

AppLeave ==
    /\ entered
    /\ entered' = FALSE
    /\ Commit(on_app_leave(Cur))
    /\ ev' = EventOf("on_app_leave", -1, "stop_action", on_app_leave(Cur))
    /\ CtlUnchanged

\* the action on_key_a is about to call
KeyACallback ==
    LET c == selected_control_index
    IN IF kind[c] = "switch"
       THEN Wired(c, switch_callback(handle_control_group(Ctl, c), c))
       ELSE Wired(c, "_on_select")

KeyMove(op, to) ==
    /\ entered
    /\ selected_control_index' = to
    /\ CommitCtl(on_focus(on_blur(Ctl, selected_control_index), to))
    /\ ev' = Event(op, to, "none", "none")
    /\ UNCHANGED <<kind, group, entered, listVars, playerVars, volVars, hostVars>>

KeyLeft == KeyMove("on_key_left", on_key_left(selected_control_index))
KeyRight == KeyMove("on_key_right", on_key_right(selected_control_index))

KeyUp ==
    /\ entered
    /\ ApiKeyUp

KeyDown ==
    /\ entered
    /\ ApiKeyDown

KeyA ==
    \E li \in LoadsOf(KeyACallback), p \in ShufflesOf(KeyACallback) :
        LET c == selected_control_index
            r == on_key_a(Ctl, Cur, c, li[1], li[2], p)
        IN /\ entered
           /\ CommitCtl(r.ctl)
           /\ Commit(r.s)
           /\ ev' = EventOf("on_key_a", c, r.cb, r.s)
           /\ UNCHANGED <<kind, group, selected_control_index, entered>>

Next ==
    \/ AppEnter
    \/ AppLeave
    \/ KeyLeft
    \/ KeyRight
    \/ KeyUp
    \/ KeyDown
    \/ KeyA
    \/ StreamCallback
    \/ CallNext

\* a device whose mixer answers no volume query (no control, or no amixer)
UiMixers == {[st |-> "nocontrol", v |-> 0], [st |-> "nocmd", v |-> 0]}
InitUi == InitRadio(0..MaxUiN, UiMixers)
Spec == InitUi /\ [][Next]_vars

(***************************************************************************)
(* SpecRace: the UI thread and one completion thread side by side.  The    *)
(* UI thread's calls are taken whole; the thread runs __call_next one      *)
(* statement at a time, and any UI call can fall between two of them: the  *)
(* code takes no lock.                                                     *)
(***************************************************************************)
Worker(name, r) ==
    /\ Commit(r)
    /\ ev' = EventOf(name, -1, "none", r)
    /\ CtlUnchanged
    /\ UNCHANGED entered

WorkerWake ==
    LET r == call_next_check([Cur EXCEPT !.pending = @ - 1])
    IN /\ pending > 0
       /\ worker = "idle"
       /\ Commit(r)
       /\ ev' = [EventOf("call_next_check", -1, "none", r)
                    EXCEPT !.stale = IF @ > 0 THEN @ - 1 ELSE 0]
       /\ CtlUnchanged
       /\ UNCHANGED entered

WorkerAdvance ==
    /\ worker = "advance"
    /\ Worker("call_next_advance", call_next_advance(Cur))

WorkerStop ==
    /\ worker = "stop"
    /\ Worker("call_next_stop", call_next_stop(Cur))

WorkerLoad ==
    /\ worker = "load"
    /\ \E li \in LoadInputs : Worker("call_next_load", call_next_load(Cur, li[1], li[2]))

WorkerStart ==
    /\ worker = "start"
    /\ Worker("call_next_start", call_next_start(Cur))

RacePlay == entered /\ ApiPlay
RaceStop == entered /\ ApiStop
RacePrev == entered /\ ApiPrev
RaceSkip == entered /\ ApiSkip

NextRace ==
    \/ AppEnter
    \/ AppLeave
    \/ RacePlay
    \/ RaceStop
    \/ RacePrev
    \/ RaceSkip
    \/ StreamCallback
    \/ WorkerWake
    \/ WorkerAdvance
    \/ WorkerStop
    \/ WorkerLoad
    \/ WorkerStart

InitRace == InitRadio(1..MaxN, ApiMixers)
SpecRace == InitRace /\ [][NextRace]_vars

(***************************************************************************)
(* SpecHost: piboy.AppState over a list of apps; the radio app, when the   *)
(* list is long enough to hold it, at RadioAppIndex.  The callbacks of the *)
(* other apps return and leave the state modelled here alone.  A value h   *)
(* is [active |-> the new __active_app, switched |-> were on_app_leave and *)
(* on_app_enter called].                                                   *)
(***************************************************************************)
next_app(a, n) == IF ~(a + 1 < n) THEN 0 ELSE a + 1
previous_app(a, n) == IF a - 1 < 0 THEN n - 1 ELSE a - 1

set_active_app_index_always(a, n, index) ==
    IF index < 0 \/ index >= n
    THEN [active |-> a, switched |-> FALSE]
    ELSE [active |-> index, switched |-> TRUE]
set_active_app_index(a, n, index) ==
    IF index < 0 \/ index >= n
    THEN [active |-> a, switched |-> FALSE]
    ELSE IF index = a
         THEN [active |-> a, switched |-> FALSE]
         ELSE [active |-> index, switched |-> TRUE]

on_rotary_increase(a, n) == [active |-> next_app(a, n), switched |-> TRUE]
on_rotary_decrease(a, n) == [active |-> previous_app(a, n), switched |-> TRUE]

\* one call of the host: h is what it does to the host, index its argument
Host(op, index, h) ==
    \E li \in LoadInputs :
        LET leaves == h.switched /\ active_app = RadioAppIndex
            enters == h.switched /\ h.active = RadioAppIndex
            s1 == IF leaves THEN on_app_leave(Cur) ELSE Cur
            s2 == IF enters THEN on_app_enter(s1, li[1], li[2]) ELSE s1
        IN /\ apps' = apps
           /\ active_app' = h.active
           /\ calls' = IF h.switched
                       THEN <<<<"on_app_leave", active_app>>, <<"on_app_enter", h.active>>>>
                       ELSE <<>>
           /\ entered' = IF h.switched THEN enters ELSE entered
           /\ CommitCtl(IF enters THEN on_focus(Ctl, selected_control_index) ELSE Ctl)
           /\ CommitApp(s2)
           /\ ev' = EventOf(op, index,
                            IF leaves THEN "stop_action"
                            ELSE IF enters /\ files > 0 THEN "play_action" ELSE "none", s2)
           /\ UNCHANGED <<kind, group, selected_control_index>>

HostRotaryIncrease == Host("on_rotary_increase", -1, on_rotary_increase(active_app, apps))
HostRotaryDecrease == Host("on_rotary_decrease", -1, on_rotary_decrease(active_app, apps))
HostSetActiveAppIndex ==
    \E index \in -1..MaxApps :
        Host("set_active_app_index", index, set_active_app_index(active_app, apps, index))

NextHost ==
    \/ HostRotaryIncrease
    \/ HostRotaryDecrease
    \/ HostSetActiveAppIndex

\* main: the apps added, the first one active
InitHost ==
    /\ InitRadioApp(0..MaxUiN, ApiMixers)
    /\ apps \in 1..MaxApps
    /\ active_app = 0
    /\ calls = <<>>
SpecHost == InitHost /\ [][NextHost]_vars


(***************************************************************************)
(* Properties of the Control classes (SpecCtl).                            *)
(***************************************************************************)
SelectedSwitch(e) == e.op = "on_select" /\ e.c \in Switches

\* C5: SwitchControl.on_select leaves _is_switched of the control as it was
\* whenever the callback it called returned False, switched or not.
C5_FalseReturnKeepsSwitch ==
    [][(SelectedSwitch(ev') /\ ev'.ret = "false")
          => is_switched'[ev'.c] = is_switched[ev'.c]]_vars

\* a switched control whose callback returned False, still switched
C5_Witness ==
    /\ SelectedSwitch(ev)
    /\ ev.ret = "false"
    /\ ev.cb = "_on_select"
    /\ is_switched[ev.c]

\* C7: of the switches registered with a control group at most one is
\* switched, and right after on_select of a member every other member is
\* unswitched.
SwitchedMembers == {c \in GroupMembers \cap Switches : is_switched[c]}

C7_AtMostOneSwitched ==
    /\ Cardinality(SwitchedMembers) <= 1
    /\ (ev.op = "on_select" /\ ev.c \in GroupMembers) => SwitchedMembers \subseteq {ev.c}

\* a group of at least two switches, one of them just switched on
C7_Witness ==
    /\ Cardinality(GroupMembers \cap Switches) >= 2
    /\ SelectedSwitch(ev)
    /\ ev.c \in GroupMembers
    /\ ev.ret = "true"
    /\ is_switched[ev.c]

\* C8: clear_selection(c), c a member: every other member is left NONE and,
\* if a switch, unswitched; c keeps its selection state and _is_switched;
\* nothing at all changes when c is the only member.
C8_ClearSelection ==
    [][(ev'.op = "clear_selection" /\ ev'.c \in GroupMembers)
          => LET c == ev'.c
             IN /\ \A m \in GroupMembers \ {c} :
                      /\ selection_state'[m] = "NONE"
                      /\ m \in Switches => ~is_switched'[m]
                /\ selection_state'[c] = selection_state[c]
                /\ c \in Switches => is_switched'[c] = is_switched[c]
                /\ GroupMembers = {c} => UNCHANGED <<selection_state, is_switched>>]_vars

\* clear_selection(c) ran in a group of several, c still focused and switched
C8_Witness ==
    /\ ev.op = "clear_selection"
    /\ ev.c \in GroupMembers \cap Switches
    /\ Cardinality(GroupMembers) >= 2
    /\ selection_state[ev.c] = "FOCUSED"
    /\ is_switched[ev.c]

\* C9: a control starts NONE; on_focus leaves it FOCUSED, on_blur NONE,
\* reset NONE and (a switch) unswitched, whatever it was; on_focus and
\* on_blur leave _is_switched alone.
C9_FocusBlurReset ==
    /\ \A c \in Controls : selection_state[c] = "NONE"
    /\ [][/\ ev'.op = "on_focus" =>
               /\ selection_state'[ev'.c] = "FOCUSED"
               /\ is_switched' = is_switched
          /\ ev'.op = "on_blur" =>
               /\ selection_state'[ev'.c] = "NONE"
               /\ is_switched' = is_switched
          /\ ev'.op = "reset" =>
               /\ selection_state'[ev'.c] = "NONE"
               /\ ev'.c \in Switches => ~is_switched'[ev'.c]]_vars

\* on_focus ran on a switched control: focused, still switched
C9_Witness ==
    /\ ev.op = "on_focus"
    /\ ev.c \in Switches
    /\ selection_state[ev.c] = "FOCUSED"
    /\ is_switched[ev.c]


(***************************************************************************)
(* Properties of the playlist and the engine.                              *)
(***************************************************************************)
\* C1: with at least one track, playing_index is a position of the
\* playlist after every action and every completion (SpecApi).
C1_PlayingIndexValid ==
    files > 0 => playing_index \in 0..(files - 1)

\* a completion advanced from the last position back to the first
C1_Witness ==
    /\ files > 1
    /\ ev.op = "call_next"
    /\ ev.cb = "advance"
    /\ playing_index = 0

\* C2: the playlist has one entry per file and holds every track index
\* exactly once (SpecApi).
C2_PlaylistIsPermutation ==
    /\ DOMAIN playlist = 0..(files - 1)
    /\ {playlist[i] : i \in DOMAIN playlist} = 0..(files - 1)
    /\ \A i, j \in DOMAIN playlist : playlist[i] = playlist[j] => i = j

\* a shuffle left an order that is not the identity
C2_Witness ==
    /\ ev.op = "random_action"
    /\ is_random
    /\ playlist # Identity(files)

\* C3, as claimed: a held stream was loaded from the track at
\* playlist[playing_index] (SpecApi).  The code breaks it.
C3_LoadedIsPlaying ==
    stream # "none" => wave_read = Some(playlist[playing_index])

\* C4, as claimed: the play/pause switch (control 2) is switched exactly
\* when the stream is running and is_continuing (Spec).  The code breaks it.
C4_SwitchTracksEngine ==
    is_switched[2] <=> (stream = "active" /\ is_continuing)

\* C6: on_select of a switch calls one callback, picked by _is_switched
\* before the call: pause_action / order_action when switched, play_action /
\* random_action when not; a True return flips _is_switched (Spec).
C6_SwitchCallsByState ==
    [][(ev'.op = "on_key_a" /\ ev'.c \in Switches)
          => LET c == ev'.c
             IN /\ is_switched[c] => ev'.cb = (IF c = 2 THEN "pause_action" ELSE "order_action")
                /\ ~is_switched[c] => ev'.cb = (IF c = 2 THEN "play_action" ELSE "random_action")
                /\ ev'.ret = "true" => is_switched'[c] = ~is_switched[c]]_vars

\* the shuffle switch was on, order_action was called, the switch is off
C6_Witness ==
    /\ ev.op = "on_key_a"
    /\ ev.c = 4
    /\ ev.cb = "order_action"
    /\ ev.ret = "true"
    /\ ~is_switched[4]

\* C10, as claimed: play_action with files > 0 returns True with
\* playlist[playing_index] = selected_index, a stream held and is_continuing.
C10_PlayAlwaysStarts ==
    (ev.op = "play_action" /\ files > 0)
        => /\ ev.ret = "true"
           /\ playlist[playing_index] = selected_index
           /\ stream # "none"
           /\ is_continuing

\* C10, amended: play_action with files > 0 returns True unless the load
\* it makes raises; it leaves playlist[playing_index] = selected_index;
\* when it returns a stream is held and is_continuing; it opens no stream
\* while one is held; with a stream held and the selected track at
\* playing_index it opens nothing and keeps the stream and its counters.
C10_PlayStartsUnlessLoadFails ==
    [][(ev'.op = "play_action" /\ files > 0)
          => /\ ev'.ret \in {"true", "raised"}
             /\ ev'.ret = "raised" => (stream' = "none" /\ ev'.opened = 0)
             /\ playlist'[playing_index'] = selected_index'
             /\ ev'.ret = "true" => (stream' # "none" /\ is_continuing')
             /\ ~ev'.leaked
             /\ ev'.opened <= 1
             /\ (stream # "none" /\ playlist[playing_index] = selected_index)
                   => /\ ev'.ret = "true"
                      /\ ev'.opened = 0
                      /\ UNCHANGED <<wave_read, total_frames, played_frames, playing_index>>]_vars

\* play_action moved playing_index to the selected track, dropped the
\* stream of another track and opened the new one
C10_Witness ==
    /\ ev.op = "play_action"
    /\ ev.ret = "true"
    /\ ev.opened = 1
    /\ playing_index # 0
    /\ wave_read = Some(selected_index)
    /\ stream = "active"
    /\ is_continuing

\* C11: with no files, play_action returns False, prev_action, skip_action
\* and the completion handler return, and none of them changes anything
\* of the app or the engine; progress is None throughout (SpecApi).
C11_EmptyPlaylistNoOps ==
    /\ [](files = 0 => progress(Cur) = None)
    /\ [][(files = 0 /\ ev'.op \in {"play_action", "prev_action",
                                     "skip_action", "call_next"})
             => /\ ev'.ret = (IF ev'.op = "play_action" THEN "false" ELSE "none")
                /\ ev'.opened = 0
                /\ UNCHANGED <<ctlVars, listVars, playerVars, volVars>>]_vars

\* play_action was refused on an empty directory whose selection the down
\* key had moved
C11_Witness ==
    /\ files = 0
    /\ ev.op = "play_action"
    /\ ev.ret = "false"
    /\ selected_index # 0
    /\ stream = "none"
    /\ progress(Cur) = None

\* C12, as claimed: prev_action / skip_action with files > 0 move
\* playing_index by -1 / +1 modulo len(files) and select the track there;
\* with an active stream the old stream is closed and the engine comes back
\* loaded with the track at the new position and continuing; otherwise the
\* engine is untouched (SpecApi).  A failing load breaks the loaded part.
C12_MoveRestartsWhenActive ==
    [][(ev'.op \in {"prev_action", "skip_action"} /\ files > 0)
          => /\ playing_index'
                  = (playing_index + (IF ev'.op = "prev_action" THEN -1 ELSE 1)) % files
             /\ playlist' = playlist
             /\ selected_index' = playlist[playing_index']
             /\ IF stream = "active"
                THEN /\ ~ev'.leaked
                     /\ ev'.opened = 1
                     /\ stream' = "active"
                     /\ wave_read' = Some(playlist[playing_index'])
                     /\ is_continuing'
                ELSE UNCHANGED playerVars]_vars

\* C12, amended: the same, except that the load made for the restart may
\* raise; the old stream is closed all the same, none is opened, and the
\* engine is left without a stream and not continuing.
C12_MoveRestartsUnlessLoadFails ==
    [][(ev'.op \in {"prev_action", "skip_action"} /\ files > 0)
          => /\ playing_index'
                  = (playing_index + (IF ev'.op = "prev_action" THEN -1 ELSE 1)) % files
             /\ playlist' = playlist
             /\ selected_index' = playlist[playing_index']
             /\ IF stream = "active"
                THEN /\ ~ev'.leaked
                     /\ ev'.ret \in {"none", "raised"}
                     /\ ev'.ret = "none"
                          => /\ ev'.opened = 1
                             /\ stream' = "active"
                             /\ wave_read' = Some(playlist[playing_index'])
                             /\ is_continuing'
                     /\ ev'.ret = "raised"
                          => /\ ev'.opened = 0
                             /\ stream' = "none"
                             /\ ~is_continuing'
                ELSE ev'.ret = "none" /\ UNCHANGED playerVars]_vars

\* prev_action wrapped from the first position to the last while a track
\* played, and the track now loaded is the one at the last position
C12_Witness ==
    /\ files > 1
    /\ ev.op = "prev_action"
    /\ ev.ret = "none"
    /\ ev.from = Some(0)
    /\ playing_index = files - 1
    /\ selected_index = playlist[playing_index]
    /\ ev.opened = 1
    /\ stream = "active"
    /\ wave_read = Some(playlist[playing_index])
    /\ is_continuing

\* C13: prev_action directly followed by skip_action, and skip_action
\* directly followed by prev_action, leave playing_index where it was
\* before the pair, for every number of files, zero included (SpecApi).
C13_PrevSkipRoundTrip ==
    (ev.op \in {"prev_action", "skip_action"} /\ ev.after # "none")
        => ev.origin = Some(playing_index)

\* prev_action wrapped from the first position to the last and the
\* skip_action after it wrapped back
C13_Witness ==
    /\ files > 1
    /\ ev.op = "skip_action"
    /\ ev.after = "prev_action"
    /\ ev.origin = Some(0)
    /\ ev.from = Some(files - 1)
    /\ playing_index = 0

\* C14: random_action directly followed by order_action leaves the
\* playlist the identity, playing_index = selected_index and is_random
\* False, whatever the state before the pair and whether or not
\* random_action returned (SpecApi).
C14_ShuffleThenOrderRestores ==
    (ev.op = "order_action" /\ ev.after = "random_action")
        => /\ ev.ret = "true"
           /\ playlist = Identity(files)
           /\ playing_index = selected_index
           /\ ~is_random

\* the pair ran with the second track selected
C14_Witness ==
    /\ ev.op = "order_action"
    /\ ev.after = "random_action"
    /\ files > 1
    /\ selected_index = 1
    /\ playing_index = 1
    /\ playlist = Identity(files)
    /\ ~is_random

\* C15: after random_action is_random is True and, with files present,
\* playing_index is a position of the playlist and the track there is the
\* selected one, whatever permutation the shuffle picked (SpecApi).
C15_ShuffleKeepsTrack ==
    ev.op = "random_action"
        => /\ is_random
           /\ files > 0 => /\ playing_index \in DOMAIN playlist
                           /\ playlist[playing_index] = selected_index

\* a shuffle moved the selected track to another position and
\* playing_index followed it
C15_Witness ==
    /\ ev.op = "random_action"
    /\ ev.ret = "true"
    /\ is_random
    /\ playlist # Identity(files)
    /\ playing_index # selected_index
    /\ playlist[playing_index] = selected_index

\* C16, as claimed: random_action returns True for every number of files,
\* 0 and 1 included (SpecApi).  The code raises on an empty playlist.
C16_ShuffleAlwaysTrue ==
    ev.op = "random_action" => ev.ret = "true"

\* C17, as claimed: with no files the shuffle switch's callback returns
\* False without raising, so on_select completes and the switch stays
\* unswitched (Spec).  The code raises out of on_select.
C17_EmptyShuffleReturnsFalse ==
    (ev.op = "on_key_a" /\ ev.cb = "random_action" /\ files = 0)
        => /\ ev.ret = "false"
           /\ ~is_switched[ev.c]

\* C18: on_key_up and on_key_down change nothing but selected_index:
\* playing_index, the playlist, is_random and every field of the engine
\* stay as they were (SpecApi).
C18_KeysMoveOnlySelection ==
    [][ev'.op \in {"on_key_up", "on_key_down"}
          => UNCHANGED <<ctlVars, files, playlist, playing_index, is_random,
                         playerVars, volVars>>]_vars

\* the down key moved the selection off the track that is playing
C18_Witness ==
    /\ ev.op = "on_key_down"
    /\ selected_index = 1
    /\ playing_index = 0
    /\ playlist[playing_index] = 0
    /\ stream = "active"
    /\ wave_read = Some(0)
    /\ is_continuing

\* C19: start_stream with no stream held returns False and changes
\* nothing; with a stream held it returns True, sets is_continuing and
\* leaves the stream held with total_frames and played_frames as they
\* were (SpecEngine).
C19_StartKeepsFrames ==
    [][ev'.op = "start_stream"
          => IF stream = "none"
             THEN ev'.ret = "false" /\ UNCHANGED <<listVars, playerVars>>
             ELSE /\ ev'.ret = "true"
                  /\ is_continuing'
                  /\ stream' # "none"
                  /\ UNCHANGED <<listVars, wave_read, total_frames,
                                 played_frames, pending>>]_vars

\* start_stream resumed a stream that was paused half way through its file
C19_Witness ==
    /\ ev.op = "start_stream"
    /\ ev.after = "pause_stream"
    /\ ev.ret = "true"
    /\ stream = "active"
    /\ is_continuing
    /\ 0 < played_frames
    /\ played_frames < total_frames

\* C20: pause_stream with no stream held returns False and changes
\* nothing; with a stream held it returns True, clears is_continuing and
\* keeps the stream, stopped, with its file and frame counters, and a
\* start_stream that follows directly sets the same stream running again
\* on the same file at the same frame (SpecEngine).
C20_PauseKeepsStream ==
    [][/\ ev'.op = "pause_stream"
          => IF stream = "none"
             THEN ev'.ret = "false" /\ UNCHANGED <<listVars, playerVars>>
             ELSE /\ ev'.ret = "true"
                  /\ ~is_continuing'
                  /\ stream' = "stopped"
                  /\ UNCHANGED <<listVars, wave_read, total_frames,
                                 played_frames, pending>>
       /\ (ev'.op = "start_stream" /\ ev.op = "pause_stream" /\ ev.ret = "true")
          => /\ stream' = "active"
             /\ is_continuing'
             /\ UNCHANGED <<wave_read, total_frames, played_frames>>]_vars

\* pause_stream stopped a stream half way through its file
C20_Witness ==
    /\ ev.op = "pause_stream"
    /\ ev.ret = "true"
    /\ stream = "stopped"
    /\ ~is_continuing
    /\ wave_read # None
    /\ 0 < played_frames
    /\ played_frames < total_frames

\* C21, as claimed: stop_stream leaves no stream, total_frames = 0,
\* played_frames = 0 and is_continuing False; a second stop_stream changes
\* nothing, and neither does one with no stream held (SpecEngine).  The
\* counters a failed load left behind survive it.
C21_StopClearsEngine ==
    [][ev'.op = "stop_stream"
          => /\ stream' = "none"
             /\ total_frames' = 0
             /\ played_frames' = 0
             /\ ~is_continuing'
             /\ (stream = "none" \/ ev.op = "stop_stream")
                   => UNCHANGED <<listVars, playerVars>>]_vars

\* C22, as claimed: in every state 0 <= played_frames <= total_frames
\* (SpecEngine).  The callback adds the frames asked for, not the frames
\* read.
C22_PlayedWithinTotal ==
    /\ 0 <= played_frames
    /\ played_frames <= total_frames

\* C23, as claimed: progress is None exactly when total_frames = 0,
\* otherwise min(1, played_frames / total_frames), so within 0..1, and
\* right after a load_file that succeeded it is 0 (SpecEngine).  A file of
\* no frames loads and leaves it None.
C23_ProgressZeroAfterLoad ==
    /\ progress(Cur) = None <=> total_frames = 0
    /\ progress(Cur) # None
          => LET num == progress(Cur)[1][1]
                 den == progress(Cur)[1][2]
             IN /\ den > 0
                /\ 0 <= num /\ num <= den
                /\ num * total_frames
                     = den * (IF played_frames < total_frames THEN played_frames
                                                              ELSE total_frames)
    /\ (ev.op = "load_file" /\ ev.ret = "none")
          => progress(Cur) # None /\ progress(Cur)[1][1] = 0

\* C23, amended: the same, and right after a load_file that succeeded
\* progress is 0 when the file has frames and None when it has none.
C23_ProgressClamped ==
    /\ progress(Cur) = None <=> total_frames = 0
    /\ progress(Cur) # None
          => LET num == progress(Cur)[1][1]
                 den == progress(Cur)[1][2]
             IN /\ den > 0
                /\ 0 <= num /\ num <= den
                /\ num * total_frames
                     = den * (IF played_frames < total_frames THEN played_frames
                                                              ELSE total_frames)
    /\ (ev.op = "load_file" /\ ev.ret = "none" /\ total_frames > 0)
          => progress(Cur) # None /\ progress(Cur)[1][1] = 0

\* the callback has counted more frames than the file holds and progress
\* is 1
C23_Witness ==
    /\ total_frames > 0
    /\ played_frames > total_frames
    /\ progress(Cur) = Some(<<1, 1>>)

\* C24: the pull callback only counts frames.  When its read succeeded
\* and played_frames is below total_frames it returns paContinue and
\* starts no thread; at total_frames it returns paComplete at once,
\* having started one thread for the completion handler, which runs later
\* as a step of its own; in no case does the callback itself move
\* anything in the playlist or open, stop or load anything (SpecEngine).
C24_CallbackOnlySchedules ==
    [][ev'.op = "stream_callback"
          => /\ UNCHANGED <<listVars, wave_read, total_frames, is_continuing>>
             /\ ev'.opened = 0
             /\ ev'.cb = "none"
                   => ev'.ret = (IF played_frames' >= total_frames THEN "complete"
                                                                   ELSE "continue")
             /\ ev'.ret = "complete"
                   => (pending' = pending + 1 /\ stream' = "complete")
             /\ ev'.ret # "complete" => pending' = pending
             /\ ev'.ret = "continue" => stream' = stream]_vars

\* the callback finished a file of several frames that was started: the
\* handler is pending and nothing has advanced yet
C24_Witness ==
    /\ files > 1
    /\ total_frames > 1
    /\ played_frames = total_frames
    /\ ev.op = "stream_callback"
    /\ ev.ret = "complete"
    /\ pending = 1
    /\ is_continuing
    /\ stream = "complete"
    /\ playing_index = 0
    /\ wave_read = Some(playlist[playing_index])

\* C25, as claimed: __call_next with is_continuing and files > 0 moves
\* playing_index by +1 modulo len(files), selects the track there, closes
\* the old stream and leaves the engine loaded with the track at the new
\* position, played_frames = 0 and is_continuing (SpecApi).  A failing
\* load breaks the loaded part.
C25_HandlerAdvances ==
    [][(ev'.op = "call_next" /\ is_continuing /\ files > 0)
          => /\ playing_index' = (playing_index + 1) % files
             /\ playlist' = playlist
             /\ selected_index' = playlist[playing_index']
             /\ ~ev'.leaked
             /\ ev'.opened = 1
             /\ stream' = "active"
             /\ wave_read' = Some(playlist[playing_index'])
             /\ played_frames' = 0
             /\ is_continuing']_vars

\* C25, amended: the same, except that the load may raise; the old stream
\* is closed all the same, none is opened, and the engine is left without
\* a stream and not continuing.
C25_HandlerAdvancesUnlessLoadFails ==
    [][(ev'.op = "call_next" /\ is_continuing /\ files > 0)
          => /\ playing_index' = (playing_index + 1) % files
             /\ playlist' = playlist
             /\ selected_index' = playlist[playing_index']
             /\ ~ev'.leaked
             /\ ev'.ret \in {"none", "raised"}
             /\ ev'.ret = "none"
                   => /\ ev'.opened = 1
                      /\ stream' = "active"
                      /\ wave_read' = Some(playlist[playing_index'])
                      /\ played_frames' = 0
                      /\ is_continuing'
             /\ ev'.ret = "raised"
                   => /\ ev'.opened = 0
                      /\ stream' = "none"
                      /\ played_frames' = 0
                      /\ ~is_continuing']_vars

\* the handler advanced from the last position to the first and the
\* track there now plays from its start
C25_Witness ==
    /\ files > 1
    /\ ev.op = "call_next"
    /\ ev.cb = "advance"
    /\ ev.ret = "none"
    /\ ev.opened = 1
    /\ playing_index = 0
    /\ selected_index = playlist[0]
    /\ stream = "active"
    /\ wave_read = Some(playlist[0])
    /\ played_frames = 0
    /\ is_continuing

\* C26: __call_next with is_continuing False changes nothing of the
\* playlist or the engine: playing_index, selected_index, the stream, the
\* file and both frame counters stay (SpecApi).
C26_HandlerIdleWhenNotContinuing ==
    [][(ev'.op = "call_next" /\ ~is_continuing)
          => /\ ev'.ret = "none"
             /\ ev'.cb = "none"
             /\ ev'.opened = 0
             /\ UNCHANGED <<listVars, stream, wave_read, total_frames,
                            played_frames, is_continuing>>]_vars

\* the handler ran on a track that was paused after its last frame: the
\* track stays loaded, stopped, at its position
C26_Witness ==
    /\ files > 1
    /\ ev.op = "call_next"
    /\ ev.cb = "none"
    /\ stream = "stopped"
    /\ ~is_continuing
    /\ pending = 0
    /\ total_frames > 0
    /\ played_frames >= total_frames
    /\ wave_read = Some(playlist[playing_index])

\* C27, as claimed: the handler of a completion thread that was already
\* started when stop_action was called moves neither playing_index nor
\* selected_index and loads and starts nothing, whatever was called
\* between the stop and the thread's wake-up, a later play_action
\* included (SpecApi).  After that play_action the handler advances.
C27_StaleNotificationInert ==
    [][(ev'.op = "call_next" /\ pending' = pending - 1 /\ ev.stale > 0)
          => /\ UNCHANGED <<playing_index, selected_index, stream, wave_read>>
             /\ ev'.opened = 0]_vars

\* C28, as claimed: a load_file that raised, called by play_action or by
\* __call_next, leaves no stream, total_frames = 0, played_frames = 0,
\* progress None and is_continuing False (SpecApi).  When the output
\* stream's open raises, the opened file's length stays in total_frames.
C28_FailedLoadLeavesNothing ==
    (ev.op \in {"play_action", "call_next"} /\ ev.ret = "raised")
        => /\ stream = "none"
           /\ total_frames = 0
           /\ played_frames = 0
           /\ progress(Cur) = None
           /\ ~is_continuing

\* C29, as claimed: a read that fails inside the pull callback ends like
\* the last frame: the callback returns paComplete and has started the
\* completion thread, and no exception leaves it (SpecEngine).  The code
\* lets the exception out and starts no thread.
C29_ReadErrorCompletes ==
    [][(ev'.op = "stream_callback" /\ ev'.cb = "read_error")
          => /\ ev'.ret = "complete"
             /\ pending' = pending + 1]_vars

\* C30: from every mixer value in 0..100, after each decrease of a run of
\* alternating increase / decrease calls the mixer is within VOLUME_STEP
\* of the value it had before the run, and every increase and decrease
\* hands __set_volume a value in 0..100 (SpecVol).
C30_UpDownWithinOneStep ==
    /\ ev.op \in {"increase_volume_action", "decrease_volume_action"}
          => /\ ev.asked # None
             /\ ev.asked[1] \in 0..100
    /\ (ev.op = "decrease_volume_action" /\ ev.origin # None)
          => /\ mixer.v - ev.origin[1] <= VOLUME_STEP
             /\ ev.origin[1] - mixer.v <= VOLUME_STEP

\* from 41 the increase went to 60 and the decrease came back to 50
C30_Witness ==
    /\ ev.op = "decrease_volume_action"
    /\ ev.origin = Some(41)
    /\ ev.asked = Some(50)
    /\ mixer.v = 50
    /\ volume = Some(50)

\* C31, as claimed: from a multiple of VOLUME_STEP increase sets
\* min(v + STEP, 100) and decrease max(v - STEP, 0); from any other value
\* both first round down to floor(v / STEP) * STEP and then move one step,
\* so increase sets min(floor(v / STEP) * STEP + STEP, 100) (SpecVol).
\* The code's increase rounds up before it steps.
C31_StepFromRoundedDown ==
    [][ev'.op \in {"increase_volume_action", "decrease_volume_action"}
          => LET v == mixer.v
                 floor == (v \div VOLUME_STEP) * VOLUME_STEP
             IN /\ ev'.asked = Some(IF ev'.op = "increase_volume_action"
                                    THEN Min(floor + VOLUME_STEP, 100)
                                    ELSE Max(floor - VOLUME_STEP, 0))
                /\ mixer'.v = ev'.asked[1]]_vars

\* C32: whatever value in 0..100 the mixer had, the value an increase or
\* a decrease sets is a multiple of VOLUME_STEP, and it is the value the
\* mixer and the stored volume then hold (SpecVol).
C32_SetsMultiplesOfStep ==
    ev.op \in {"increase_volume_action", "decrease_volume_action"}
        => /\ ev.asked # None
           /\ ev.asked[1] % VOLUME_STEP = 0
           /\ mixer.v = ev.asked[1]
           /\ volume = Some(mixer.v)

\* a decrease that began a run set the mixer to 20
C32_Witness ==
    /\ ev.op = "decrease_volume_action"
    /\ ev.origin = None
    /\ ev.asked = Some(20)
    /\ mixer.v = 20

\* C33, as claimed: with the mixer unavailable, whether no control answers
\* or amixer cannot be run, selecting the increase or the decrease control
\* returns without an error, changes no mixer value and leaves the stored
\* volume None (Spec).  The code catches ValueError only.
C33_UnavailableMixerSilent ==
    [][(ev'.op = "on_key_a" /\ mixer.st # "ok"
          /\ ev'.cb \in {"increase_volume_action", "decrease_volume_action"})
          => /\ ev'.ret = "none"
             /\ mixer' = mixer
             /\ volume = None
             /\ volume' = None]_vars

\* C34: once a track plays with is_continuing, every load succeeds and
\* the user does nothing more, a completion reported by the pull callback
\* at position i is followed by the engine streaming the track at position
\* (i + 1) modulo len(files), and every position of the playlist comes up
\* again and again (SpecAuto, with its fairness).
C34_AutoAdvanceLive ==
    \A i \in 0..(MaxAutoN - 1) :
        /\ [](( /\ ev.op = "stream_callback"
                /\ ev.ret = "complete"
                /\ is_continuing
                /\ playing_index = i)
              => <>( /\ playing_index = (i + 1) % files
                     /\ stream = "active"
                     /\ wave_read = Some(playlist[playing_index])
                     /\ played_frames = 0
                     /\ is_continuing))
        /\ [](( /\ i < files
                /\ stream # "none"
                /\ is_continuing)
              => <>( /\ playing_index = i
                     /\ stream = "active"
                     /\ wave_read = Some(playlist[i])))

\* in a shuffled order the handler advanced from the last position to the
\* first on its own
C34_Witness ==
    /\ files > 1
    /\ is_random
    /\ ev.op = "call_next"
    /\ ev.cb = "advance"
    /\ pending = 0
    /\ playing_index = 0
    /\ stream = "active"
    /\ wave_read = Some(playlist[0])

\* C35, as claimed: however the UI thread's play, stop, previous and next
\* fall between the statements of a running completion handler, no stream
\* is opened while another is still held, so at most one is open
\* (SpecRace).  Nothing serializes the two threads.
C35_OneStreamOpen ==
    ~ev.leaked

\* C36, as claimed: in every state is_continuing implies a stream is
\* held, and no stream held implies total_frames = 0 and played_frames = 0
\* (SpecEngine).  A load_file whose output stream fails to open leaves the
\* file's length in total_frames with no stream.
C36_EngineStateConsistent ==
    /\ is_continuing => stream # "none"
    /\ stream = "none" => (total_frames = 0 /\ played_frames = 0)

\* C37: once the radio app has been entered (the host's first call is
\* on_app_enter, so after any operation at all), exactly one control is
\* FOCUSED, it is the one at selected_control_index, and the index is within
\* 0..(number of controls - 1); on_key_left at the first control and
\* on_key_right at the last leave the index where it is; on_key_a never
\* changes which controls are focused (Spec).
FocusedControls == {c \in Controls : selection_state[c] = "FOCUSED"}

C37_OneFocusedControl ==
    /\ [](ev.op # "init" =>
            /\ selected_control_index \in 0..(Cardinality(Controls) - 1)
            /\ FocusedControls = {selected_control_index})
    /\ [][/\ (ev'.op = "on_key_left" /\ selected_control_index = 0)
                => selected_control_index' = 0
          /\ (ev'.op = "on_key_right"
                /\ selected_control_index = Cardinality(Controls) - 1)
                => selected_control_index' = selected_control_index
          /\ ev'.op = "on_key_a" => FocusedControls' = FocusedControls]_vars

\* the pause/play switch, a member of the control group, was selected after
\* the cursor moved onto it, and it alone is focused
C37_Witness ==
    /\ ev.op = "on_key_a"
    /\ ev.c = 2
    /\ selected_control_index = 2
    /\ FocusedControls = {2}

\* C38, as claimed: selected_index is never negative and never exceeds
\* files - 1: it is in 0..(files - 1) when there are files and stays 0 when
\* there are none (SpecApi).  on_key_down on an empty directory takes
\* min(0 + 1, 0 - 1) and leaves -1.
C38_SelectedIndexValid ==
    /\ files > 0 => selected_index \in 0..(files - 1)
    /\ files = 0 => selected_index = 0

\* C39, as claimed: while the radio app is not the active app (it was left
\* and not entered again, so no play action can be selected) the engine
\* holds no stream and is_continuing is false, also when the completion
\* handler was running as the app was left (SpecRace).
C39_LeftAppStaysSilent ==
    ~entered => (stream = "none" /\ ~is_continuing)

\* C40: in the host with at least one app the active app index is always
\* in 0..(apps - 1); on_rotary_increase and on_rotary_decrease move it by
\* one and wrap around; every switch calls on_app_leave on the app that was
\* active and then on_app_enter on the app that is now active, once each;
\* set_active_app_index with an index out of range or equal to the active
\* one changes nothing and calls neither (SpecHost).
SwitchCalls(old, new) == <<<<"on_app_leave", old>>, <<"on_app_enter", new>>>>

C40_HostSwitchesApps ==
    /\ [](apps >= 1 => active_app \in 0..(apps - 1))
    /\ [][/\ ev'.op = "on_rotary_increase" =>
               /\ active_app' = (active_app + 1) % apps
               /\ calls' = SwitchCalls(active_app, active_app')
          /\ ev'.op = "on_rotary_decrease" =>
               /\ active_app' = (active_app + apps - 1) % apps
               /\ calls' = SwitchCalls(active_app, active_app')
          /\ ev'.op = "set_active_app_index" =>
               IF ev'.c \in 0..(apps - 1) /\ ev'.c # active_app
               THEN /\ active_app' = ev'.c
                    /\ calls' = SwitchCalls(active_app, ev'.c)
               ELSE /\ calls' = <<>>
                    /\ UNCHANGED <<ctlVars, listVars, playerVars, volVars,
                                   apps, active_app>>]_vars

\* a rotary increase on the last of several apps wrapped around to the
\* first: the last app was left, the first entered
C40_Witness ==
    /\ ev.op = "on_rotary_increase"
    /\ apps > 1
    /\ active_app = 0
    /\ calls = SwitchCalls(apps - 1, 0)


====
